---- MODULE Spec2Model ----
(***************************************************************************)
(* HastyDB: a log-structured key-value store.  The model follows           *)
(* hastydb.go (Open, DB.Set, DB.Get, the close closure), wal.go, segment.go*)
(* and the SSTable writer actor (sstableWriter.Run / Notify / flush).      *)
(*                                                                         *)
(* One operating-system process runs at a time on one database directory.  *)
(* The directory (the WAL file and the segment files) outlives the process;*)
(* the DB struct, the actors and the callers do not.                       *)
(***************************************************************************)
EXTENDS Integers, Sequences, FiniteSets, TLC

\* ------------------------------------------------------------------ bounds

\* Facade calls (Set, Get, close) a single caller makes over the whole run.
MaxOps == 3
\* Facade calls two concurrent callers make between them.
MaxConcurrentOps == 2
\* Set calls in a run of the three notifying callers.
MaxNotifiers == 3
\* Processes that open the directory one after the other (1 = never reopened).
MaxSessions == 2
\* Streams handed to one mergeStreams call, and records they hold together.
MaxStreams == 3
MaxRecords == 4
\* Bytes in the key and in the value of a record handed to encode.
MaxKeyLen == 2
MaxValueLen == 2
\* Sets applied to a memtable before sstableWriter.write is run on it.
MaxSets == 3
\* Bytes after the length prefix of a record that ReadRecord is given.
MaxBodyLen == 3

\* Caller goroutines.
Clients == {1, 2, 3}
\* Keys, as byte strings.
Keys == {<<1>>, <<2>>}

\* A Go []byte: the nil slice, or a slice holding the bytes b.
NilSlice == [nil |-> TRUE, b |-> <<>>]
Slice(s) == [nil |-> FALSE, b |-> s]
\* The values callers pass to Set; the nil slice is an empty value.
Values == {NilSlice, Slice(<<5>>), Slice(<<6>>)}

\* cfg.maxMemtableSize as set by WithMaxMemtableSize.
maxMemtableSize == 1

\* ----------------------------------------------------------- record codec

recordLengthSize == 4
recordKeyValueDelimeter == 0

\* binary.Write(out, binary.LittleEndian, blen) for a uint32.
LittleEndian32(n) ==
    << n % 256, (n \div 256) % 256, (n \div 65536) % 256, (n \div 16777216) % 256 >>

\* binary.LittleEndian.Uint32(b).
Uint32(b) == b[1] + 256 * b[2] + 65536 * b[3] + 16777216 * b[4]

\* uint32 arithmetic; the records modelled here are far shorter than 2^32
\* bytes, so the sum never wraps.
recordLen(key, value) ==
    recordLengthSize + Len(key) + 1 + Len(value.b)

\* The four writes encode() issues, in order.
encodeChunk(key, value, i) ==
    CASE i = 1 -> LittleEndian32(recordLen(key, value))
      [] i = 2 -> key
      [] i = 3 -> << recordKeyValueDelimeter >>
      [] OTHER -> value.b

encode(key, value) ==
    encodeChunk(key, value, 1) \o encodeChunk(key, value, 2)
        \o encodeChunk(key, value, 3) \o encodeChunk(key, value, 4)

\* ---------------------------------------------------------------- memtable

\* index.Memtable: an ordered map with a cumulative byte-size estimate.
EmptyMemtable == [kv |-> [k \in {} |-> NilSlice], size |-> 0]

MemtableSet(m, key, value) ==
    [kv   |-> [k \in (DOMAIN m.kv) \cup {key} |-> IF k = key THEN value ELSE m.kv[k]],
     size |-> m.size + Len(key) + Len(value.b)]

\* Get returns nil for a key that is not in the tree.
MemtableGet(m, key) == IF key \in DOMAIN m.kv THEN m.kv[key] ELSE NilSlice

\* Lexicographic byte order of Go strings.
RECURSIVE KeyLess(_, _)
KeyLess(a, b) ==
    IF b = <<>> THEN FALSE
    ELSE IF a = <<>> THEN TRUE
    ELSE IF Head(a) # Head(b) THEN Head(a) < Head(b)
    ELSE KeyLess(Tail(a), Tail(b))

\* Keys() enumerates the keys in ascending order.
RECURSIVE SortedSeq(_)
SortedSeq(S) ==
    IF S = {} THEN <<>>
    ELSE LET least == CHOOSE x \in S : \A y \in S \ {x} : KeyLess(x, y)
         IN  << least >> \o SortedSeq(S \ {least})

MemtableKeys(m) == SortedSeq(DOMAIN m.kv)

\* A decode that cuts the record at the last delimiter byte.
decodeAtLastDelimeter(b) ==
    LET body == SubSeq(b, recordLengthSize + 1, Len(b))
        zeros == {i \in 1..Len(body) : body[i] = recordKeyValueDelimeter}
    IN  IF zeros = {}
        THEN [ok |-> FALSE, key |-> <<>>, value |-> NilSlice,
              panic |-> Len(b) < recordLengthSize]
        ELSE LET i == CHOOSE z \in zeros : \A y \in zeros : z >= y
             IN  [ok    |-> TRUE,
                  key   |-> SubSeq(body, 1, i - 1),
                  value |-> Slice(SubSeq(body, i + 1, Len(body))),
                  panic |-> FALSE]

\* decode returns the key and the value of an encoded record, or nil
\* (ok = FALSE) when the bytes after the length prefix hold no delimiter.
\* b[recordLengthSize:] panics when b is shorter than the length prefix.
decode(b) ==
    LET body == SubSeq(b, recordLengthSize + 1, Len(b))
        zeros == {i \in 1..Len(body) : body[i] = recordKeyValueDelimeter}
    IN  IF zeros = {}
        THEN [ok |-> FALSE, key |-> <<>>, value |-> NilSlice,
              panic |-> Len(b) < recordLengthSize]
        ELSE LET i == CHOOSE z \in zeros : \A y \in zeros : z <= y
             IN  [ok    |-> TRUE,
                  key   |-> SubSeq(body, 1, i - 1),
                  value |-> Slice(SubSeq(body, i + 1, Len(body))),
                  panic |-> FALSE]

\* split, the scanners' split function, on the unread bytes at the end of
\* the file: the token ends before the first delimiter byte, which is
\* skipped; without one, the rest is the final token (it may be empty).
split(data) ==
    LET zeros == {i \in 1..Len(data) : data[i] = recordKeyValueDelimeter}
    IN  IF zeros = {}
        THEN [advance |-> 0, token |-> data, final |-> TRUE]
        ELSE LET i == CHOOSE z \in zeros : \A y \in zeros : z <= y
             IN  [advance |-> i, token |-> SubSeq(data, 1, i - 1), final |-> FALSE]

\* The tokens a bufio.Scanner with Split(split) yields over a file, Scan
\* after Scan, until Scan returns false.
RECURSIVE ScanAll(_)
ScanAll(data) ==
    LET t == split(data)
    IN  IF t.final THEN << t.token >>
        ELSE << t.token >> \o ScanAll(SubSeq(data, t.advance + 1, Len(data)))

\* ------------------------------------------------------------ indexMinHeap

\* A *record: nil, or a record with its key, value and stream number.
NilRec == [nil |-> TRUE, key |-> <<>>, value |-> NilSlice, order |-> 0]
Rec(key, value, order) == [nil |-> FALSE, key |-> key, value |-> value, order |-> order]

\* The heap's three slices have n+1 elements; pq is used from index 1.
newIndexMinHeap(n) ==
    [n     |-> 0,
     pq    |-> [i \in 0..n |-> 0],
     qp    |-> [i \in 0..n |-> -1],
     items |-> [i \in 0..n |-> NilRec]]

Size(h) == h.n

\* A greater that breaks a tie of keys towards the older stream.
greaterOlderLast(h, i, j) ==
    LET a == h.items[h.pq[i]]
        b == h.items[h.pq[j]]
    IN  IF KeyLess(b.key, a.key) THEN TRUE
        ELSE IF a.key = b.key THEN a.order < b.order
        ELSE FALSE

\* Go's string comparison key > key, then the stream numbers.
greater(h, i, j) ==
    LET a == h.items[h.pq[i]]
        b == h.items[h.pq[j]]
    IN  IF KeyLess(b.key, a.key) THEN TRUE
        ELSE IF a.key = b.key THEN a.order > b.order
        ELSE FALSE

exchange(h, i, j) ==
    LET pq1 == [h.pq EXCEPT ![i] = h.pq[j], ![j] = h.pq[i]]
        qp1 == [h.qp EXCEPT ![pq1[i]] = i]
        qp2 == [qp1 EXCEPT ![pq1[j]] = j]
    IN  [h EXCEPT !.pq = pq1, !.qp = qp2]

RECURSIVE swim(_, _)
swim(h, k) ==
    IF k > 1 /\ greater(h, k \div 2, k)
    THEN swim(exchange(h, k, k \div 2), k \div 2)
    ELSE h

RECURSIVE sink(_, _)
sink(h, k) ==
    IF 2 * k <= h.n
    THEN LET j == IF 2 * k < h.n /\ greater(h, 2 * k, 2 * k + 1)
                  THEN 2 * k + 1 ELSE 2 * k
         IN  IF ~greater(h, k, j) THEN h ELSE sink(exchange(h, k, j), j)
    ELSE h

\* An Insert that leaves the new item at the bottom of the heap.
InsertWithoutSwim(h, i, item) ==
    [h EXCEPT !.n = h.n + 1, !.qp[i] = h.n + 1, !.pq[h.n + 1] = i, !.items[i] = item]

\* Insert adds the item and associates it with index i.
Insert(h, i, item) ==
    LET h1 == [h EXCEPT !.n = h.n + 1, !.qp[i] = h.n + 1, !.pq[h.n + 1] = i,
                        !.items[i] = item]
    IN  swim(h1, h1.n)

\* Min takes the smallest item off the top: the heap left, the index the
\* item was associated with, and the item.
Min(h) ==
    IF Size(h) = 0 THEN [h |-> h, i |-> -1, rec |-> NilRec]
    ELSE LET indexOfMin == h.pq[1]
             h1 == exchange(h, 1, h.n)
             h2 == sink([h1 EXCEPT !.n = h1.n - 1], 1)
         IN  [h   |-> [h2 EXCEPT !.items[indexOfMin] = NilRec,
                                 !.qp[indexOfMin] = -1,
                                 !.pq[h2.n + 1] = -1],
              i   |-> indexOfMin,
              rec |-> h.items[indexOfMin]]

\* ------------------------------------------------------------------- state

VARIABLES
    procUp,            \* the process that opened the directory is running
    session,           \* how many times the directory has been opened
    opsLeft,           \* facade calls the callers will still make
    memtable,          \* db.memtable
    flushingMemtable,  \* db.flushingMemtable: <<>> is nil, << m >> a memtable
    segments,          \* db.segments (atomic.Value): set = FALSE before any Store
    walFile,           \* the bytes of <path>/wal on disk
    segFiles,          \* the segment files of the directory, by name
    ctxDone,           \* the errgroup context is cancelled
    groupErr,          \* the first non-nil error an actor returned (g.Wait's result)
    sem,               \* sstableWriter.sem: units acquired
    writerPc,          \* where sstableWriter.Run is
    mergerPc,          \* where segmentMerger.Run is
    cl,                \* the callers: the call each is in and what it returned
    hist,              \* history of the run (read by the properties only)
    mg,                \* a run of segmentMerger.mergeStreams on given streams
    cd,                \* a run of encode and decode on a given record
    sw                 \* a run of sstableWriter.write on a memtable built by Sets

\* The database: the process, its directory and its callers.
storeVars == << procUp, session, opsLeft, memtable, flushingMemtable, segments,
                walFile, segFiles, ctxDone, groupErr, sem, writerPc, mergerPc, cl,
                hist >>
\* The functions run on their own, as the package's tests run them.
unitVars == << mg, cd, sw >>

vars == << storeVars, unitVars >>

dbVars    == << memtable, flushingMemtable, segments >>
diskVars  == << walFile, segFiles >>
groupVars == << ctxDone, groupErr, mergerPc >>
procVars  == << procUp, session >>

\* The one name flush() gives its segment file.
segPath == "seg0"
SegNames == {segPath}

\* A file of the directory: the bytes written to it, and how many of them
\* an fsync has committed to the disk.
NoFile == [exists |-> FALSE, data |-> <<>>, synced |-> 0]
EmptyFile == [exists |-> TRUE, data |-> <<>>, synced |-> 0]

\* What a caller's Get saw when it probed the memtables.
NoSeen == [probed |-> FALSE, inAct |-> FALSE, actVal |-> NilSlice,
           inFl |-> FALSE, flVal |-> NilSlice, inSeg |-> FALSE]
\* What a caller's own earlier Sets make it expect from its Get.
NoExpect == [known |-> FALSE, val |-> NilSlice]

\* A function that is not being run.
Unused == [pc |-> "none"]

IdleCaller == [pc |-> "idle", op |-> "none", key |-> <<>>, val |-> NilSlice,
               res |-> NilSlice, err |-> "nil", afterClose |-> FALSE,
               afterClosed |-> FALSE,
               seen |-> NoSeen, ryw |-> NoExpect]

NoSets == [val |-> NilSlice, callers |-> {}, failed |-> FALSE, pending |-> 0]

\* The Sets on key k in this session all returned success.
Clean(k) ==
    /\ hist.keys[k].callers # {}
    /\ ~hist.keys[k].failed
    /\ hist.keys[k].pending = 0

InitHist ==
    [keys     |-> [k \in Keys |-> NoSets],  \* the Sets of this session, by key
     prev     |-> [k \in Keys |-> NoExpect],\* what the previous session acknowledged
     acked    |-> {},                       \* records of the Sets that returned nil
     applied  |-> <<>>,                     \* this session's Sets, in memtable order
     closeCalls    |-> 0,                   \* close-fn calls started in this session
     closeReturned |-> 0,                   \* ... and returned
     quitCalled    |-> FALSE,               \* close-fn has called quit()
     finalRecv     |-> FALSE,               \* the writer received close-fn's Notify
     cancelDuringFlush |-> FALSE,           \* quit() was called while a flush ran
     flush    |-> "none",                   \* the last flush: running, failed, panicked, done
     flushes  |-> 0,                        \* memtable freezes over the whole run
     refroze  |-> FALSE,                    \* a freeze replaced a frozen memtable
     panicked |-> FALSE,                    \* this session ended in a panic
     prevShutdown |-> FALSE,                \* close-fn was called in the previous process,
                                            \* which then ended in its own flush
     walLenAtOpen |-> 0]                    \* the WAL's length when Open returned

\* ------------------------------------------------------------------- Open

\* Open: a fresh DB struct with an empty memtable; the WAL is opened
\* read-only and closed again if it exists, then opened for appending
\* (created if absent); both actors are started.  Nothing is read from the
\* WAL, the WAL is not truncated, and db.segments is left without a value.
OpenDB ==
    /\ memtable' = EmptyMemtable
    /\ flushingMemtable' = <<>>
    /\ segments' = [set |-> FALSE, list |-> <<>>]
    /\ walFile' = IF walFile.exists THEN walFile ELSE EmptyFile
    /\ ctxDone' = FALSE
    /\ groupErr' = "nil"
    /\ sem' = 0
    /\ writerPc' = "select"
    /\ mergerPc' = "select"
    /\ cl' = [c \in Clients |-> IdleCaller]

Init ==
    /\ procUp = TRUE
    /\ session = 1
    /\ opsLeft = MaxOps
    /\ memtable = EmptyMemtable
    /\ flushingMemtable = <<>>
    /\ segments = [set |-> FALSE, list |-> <<>>]
    /\ walFile = EmptyFile
    /\ segFiles = [n \in SegNames |-> NoFile]
    /\ ctxDone = FALSE
    /\ groupErr = "nil"
    /\ sem = 0
    /\ writerPc = "select"
    /\ mergerPc = "select"
    /\ cl = [c \in Clients |-> IdleCaller]
    /\ hist = InitHist
    /\ mg = Unused
    /\ cd = Unused
    /\ sw = Unused

\* The directory is opened again after the previous process has ended.
Open ==
    /\ ~procUp
    /\ session < MaxSessions
    /\ procUp' = TRUE
    /\ session' = session + 1
    /\ OpenDB
    /\ hist' = [InitHist EXCEPT
                  !.prev = [k \in Keys |->
                              [known |-> Clean(k), val |-> hist.keys[k].val]],
                  !.acked = hist.acked,
                  !.prevShutdown = hist.closeCalls > 0 /\ hist.flush = "panicked",
                  !.flushes = hist.flushes,
                  !.walLenAtOpen = Len(walFile.data)]
    /\ UNCHANGED << unitVars, opsLeft, segFiles >>

\* The process ends: what it held in memory is gone, the files stay.
ProcessEnds ==
    /\ procUp' = FALSE
    /\ memtable' = EmptyMemtable
    /\ flushingMemtable' = <<>>
    /\ segments' = [set |-> FALSE, list |-> <<>>]
    /\ ctxDone' = FALSE
    /\ groupErr' = "nil"
    /\ sem' = 0
    /\ writerPc' = "dead"
    /\ mergerPc' = "dead"
    /\ UNCHANGED << unitVars, session, opsLeft, diskVars >>

\* The process is terminated from outside at an arbitrary point.
Kill ==
    /\ procUp
    /\ session < MaxSessions
    /\ ProcessEnds
    /\ cl' = [c \in Clients |-> IdleCaller]
    /\ UNCHANGED hist

\* An unrecovered panic in a goroutine ends the process; c is the caller
\* whose call panicked (0 when an actor did).  The callers' records keep what
\* each call had observed.
Panic(c) ==
    /\ ProcessEnds
    /\ cl' = [d \in Clients |->
                IF d = c THEN [cl[d] EXCEPT !.pc = "panicked", !.err = "panic"]
                ELSE cl[d]]

\* -------------------------------------------------------------------- Set

\* A caller's Set returns err.
SetReturn(c, err) ==
    LET k == cl[c].key
    IN  /\ cl' = [cl EXCEPT ![c].pc = "idle", ![c].err = err]
        /\ hist' = [hist EXCEPT
                      !.keys[k].pending = @ - 1,
                      !.keys[k].failed = @ \/ err # "nil",
                      !.acked = IF err = "nil"
                                THEN @ \cup {[key |-> k, val |-> cl[c].val]}
                                ELSE @]

\* A Set that inserts into the memtable it found before the swap, that is
\* into the frozen one while a flush is running.
SetIntoFrozen(c, key, value) ==
    /\ procUp
    /\ cl[c].pc = "idle"
    /\ opsLeft > 0
    /\ opsLeft' = opsLeft - 1
    /\ IF flushingMemtable = <<>>
       THEN /\ memtable' = MemtableSet(memtable, key, value)
            /\ UNCHANGED flushingMemtable
       ELSE /\ flushingMemtable' = << MemtableSet(flushingMemtable[1], key, value) >>
            /\ UNCHANGED memtable
    /\ cl' = [cl EXCEPT ![c] = [IdleCaller EXCEPT
                 !.pc = "wal_len", !.op = "Set", !.key = key, !.val = value,
                 !.afterClose = hist.closeCalls > 0,
                 !.afterClosed = hist.closeReturned > 0]]
    /\ hist' = [hist EXCEPT
                  !.keys[key] = [val |-> value, callers |-> @.callers \cup {c},
                                 failed |-> @.failed, pending |-> @.pending + 1],
                  !.applied = Append(@, [key |-> key, val |-> value])]
    /\ UNCHANGED << unitVars, procVars, segments, diskVars, groupVars,
                    sem, writerPc >>

\* DB.Set, first step: under memMu, insert into the active memtable.
Set(c, key, value) ==
    /\ procUp
    /\ cl[c].pc = "idle"
    /\ opsLeft > 0
    /\ opsLeft' = opsLeft - 1
    /\ memtable' = MemtableSet(memtable, key, value)
    /\ cl' = [cl EXCEPT ![c] = [IdleCaller EXCEPT
                 !.pc = "wal_len", !.op = "Set", !.key = key, !.val = value,
                 !.afterClose = hist.closeCalls > 0,
                 !.afterClosed = hist.closeReturned > 0]]
    /\ hist' = [hist EXCEPT
                  !.keys[key] = [val |-> value, callers |-> @.callers \cup {c},
                                 failed |-> @.failed, pending |-> @.pending + 1],
                  !.applied = Append(@, [key |-> key, val |-> value])]
    /\ UNCHANGED << unitVars, procVars, flushingMemtable, segments, diskVars, groupVars,
                    sem, writerPc >>

WalPcs == << "wal_len", "wal_key", "wal_delim", "wal_val", "wal_sync" >>
WalStep(pc) == CHOOSE i \in 1..4 : WalPcs[i] = pc

\* wal.WriteRecord: encode() appends the record to the WAL file in four
\* writes, outside any lock.  The first write may fail (an I/O error), and
\* Set then returns the error.
WalWrite(c) ==
    /\ procUp
    /\ cl[c].pc \in {WalPcs[i] : i \in 1..4}
    /\ \E ioOk \in BOOLEAN :
         IF ioOk \/ cl[c].pc # "wal_len"
         THEN /\ ioOk
              /\ walFile' = [walFile EXCEPT !.data =
                    @ \o encodeChunk(cl[c].key, cl[c].val, WalStep(cl[c].pc))]
              /\ cl' = [cl EXCEPT ![c].pc = WalPcs[WalStep(cl[c].pc) + 1]]
              /\ UNCHANGED hist
         ELSE /\ SetReturn(c, "wal_error")
              /\ UNCHANGED walFile
    /\ UNCHANGED << unitVars, procVars, opsLeft, dbVars, segFiles, groupVars, sem, writerPc >>

\* The WAL's Sync, then the size check of DB.Set, which reads db.memtable
\* without the lock, and the return when no flush is due.
SetSizeCheck(c) ==
    /\ procUp
    /\ cl[c].pc = "wal_sync"
    /\ walFile' = [walFile EXCEPT !.synced = Len(walFile.data)]
    /\ IF memtable.size > maxMemtableSize
       THEN cl' = [cl EXCEPT ![c].pc = "notify"] /\ UNCHANGED hist
       ELSE SetReturn(c, "nil")
    /\ UNCHANGED << unitVars, procVars, opsLeft, dbVars, segFiles, groupVars, sem, writerPc >>

\* -------------------------------------------------------------------- Get

\* What Get's memtable probe returns: the active memtable's value, or the
\* flushing memtable's when the active one gave nil and there is one.
ProbeMemtables(key) ==
    LET value == MemtableGet(memtable, key)
    IN  IF value.nil /\ flushingMemtable # <<>>
        THEN MemtableGet(flushingMemtable[1], key)
        ELSE value

\* segment.ReadRecord on a segment of the list.
ReadRecord(seg, offset) ==
    IF seg.closed \/ offset + recordLengthSize > Len(segFiles[seg.path].data)
    THEN [err |-> "read_error", value |-> NilSlice]
    ELSE LET data == segFiles[seg.path].data
             blen == Uint32(SubSeq(data, offset + 1, offset + recordLengthSize))
         IN  IF offset + blen > Len(data)
             THEN [err |-> "read_error", value |-> NilSlice]
             ELSE IF ~seg.hasDecode \/ ~decode(SubSeq(data, offset + 1, offset + blen)).ok
             THEN [err |-> "panic", value |-> NilSlice]
             ELSE [err |-> "nil",
                   value |-> decode(SubSeq(data, offset + 1, offset + blen)).value]

\* The loop of Get over a loaded segment list, newest first.
RECURSIVE SearchSegments(_, _)
SearchSegments(ss, key) ==
    IF ss = <<>> THEN [err |-> "ErrKeyNotFound", value |-> NilSlice]
    ELSE IF key \in DOMAIN Head(ss).index
    THEN ReadRecord(Head(ss), Head(ss).index[key])
    ELSE SearchSegments(Tail(ss), key)

\* DB.Get, first step: under memMu.RLock, probe the memtables; a non-nil
\* value is returned.
Get(c, key) ==
    /\ procUp
    /\ cl[c].pc = "idle"
    /\ opsLeft > 0
    /\ opsLeft' = opsLeft - 1
    /\ LET value == ProbeMemtables(key)
           call == [IdleCaller EXCEPT
                      !.op = "Get", !.key = key,
                      !.afterClose = hist.closeCalls > 0,
                      !.afterClosed = hist.closeReturned > 0,
                      !.seen = [probed |-> TRUE,
                                inAct  |-> key \in DOMAIN memtable.kv,
                                actVal |-> MemtableGet(memtable, key),
                                inFl   |-> /\ flushingMemtable # <<>>
                                           /\ key \in DOMAIN flushingMemtable[1].kv,
                                flVal  |-> IF flushingMemtable = <<>> THEN NilSlice
                                           ELSE MemtableGet(flushingMemtable[1], key),
                                inSeg  |-> FALSE],
                      !.ryw = [known |-> hist.keys[key].callers = {c} /\ Clean(key),
                               val   |-> hist.keys[key].val]]
       IN  cl' = [cl EXCEPT ![c] =
                    IF ~value.nil
                    THEN [call EXCEPT !.pc = "idle", !.res = value]
                    ELSE [call EXCEPT !.pc = "get_seg"]]
    /\ UNCHANGED << unitVars, procVars, dbVars, diskVars, groupVars, sem, writerPc, hist >>

\* DB.Get, second step: load the segment list and search it.  Load() of an
\* atomic.Value nobody stored to gives nil, and the type assertion panics.
GetSegments(c) ==
    /\ procUp
    /\ cl[c].pc = "get_seg"
    /\ LET r == IF ~segments.set
                THEN [err |-> "panic", value |-> NilSlice]
                ELSE SearchSegments(segments.list, cl[c].key)
       IN  IF r.err = "panic"
           THEN /\ Panic(c)
                /\ hist' = [hist EXCEPT !.panicked = TRUE]
           ELSE /\ cl' = [cl EXCEPT ![c].pc = "idle", ![c].err = r.err,
                                    ![c].res = r.value,
                                    ![c].seen.inSeg = r.err # "ErrKeyNotFound"]
                /\ UNCHANGED << unitVars, procVars, opsLeft, dbVars, diskVars, groupVars,
                                sem, writerPc, hist >>

\* ------------------------------------------------------- the flush actor

FlushPcs == {"swap", "open_seg", "write", "close_seg", "publish", "truncate", "clear"}

\* An actor's Run returns err: the errgroup keeps the first non-nil error
\* and cancels the group's context.
ActorReturn(err) ==
    /\ groupErr' = IF groupErr = "nil" THEN err ELSE groupErr
    /\ ctxDone' = TRUE

\* Notify's send on the unbuffered channel meets the receive in Run's
\* select; Run then tries the semaphore and, holding it, calls flush.
\* The sender is a Set past its size check or the close closure.
WriterRecv(c) ==
    /\ cl[c].pc \in {"notify", "close_notify"}
    /\ IF sem = 0
       THEN sem' = 1 /\ writerPc' = "swap"
       ELSE UNCHANGED << sem, writerPc >>
    /\ IF cl[c].pc = "notify"
       THEN SetReturn(c, "nil")
       ELSE /\ cl' = [cl EXCEPT ![c].pc = "close_quit"]
            /\ hist' = [hist EXCEPT !.finalRecv = TRUE]
    /\ UNCHANGED << unitVars, procVars, opsLeft, dbVars, diskVars, groupVars >>

\* Run's select takes ctx.Done() and returns ctx.Err().
WriterCancel ==
    /\ ctxDone
    /\ writerPc' = "exited"
    /\ ActorReturn("canceled")
    /\ UNCHANGED << unitVars, procVars, opsLeft, dbVars, diskVars, mergerPc, sem, cl, hist >>

\* A Run that would also take ctx.Done() in the middle of a flush.
WriterSelectInterruptible(C) ==
    /\ procUp
    /\ \/ /\ writerPc = "select"
          /\ \E viaNotif \in BOOLEAN :
               IF viaNotif THEN \E c \in C : WriterRecv(c) ELSE WriterCancel
       \/ /\ writerPc \in FlushPcs
          /\ WriterCancel

\* sstableWriter.Run blocked in its select: whichever case is ready is taken.
WriterSelect(C) ==
    /\ procUp
    /\ writerPc = "select"
    /\ \E viaNotif \in BOOLEAN :
         IF viaNotif THEN \E c \in C : WriterRecv(c) ELSE WriterCancel

\* flush returns an error and Run returns it without releasing the semaphore.
FlushFail ==
    /\ writerPc' = "exited"
    /\ ActorReturn("flush_error")
    /\ hist' = [hist EXCEPT !.flush = "failed"]

\* flush, under memMu: the active memtable becomes the flushing one and a
\* new empty memtable takes its place.
FlushSwap ==
    /\ procUp
    /\ writerPc = "swap"
    /\ flushingMemtable' = << memtable >>
    /\ memtable' = EmptyMemtable
    /\ writerPc' = "open_seg"
    /\ hist' = [hist EXCEPT !.flush = "running", !.flushes = @ + 1,
                            !.refroze = @ \/ flushingMemtable # <<>>]
    /\ UNCHANGED << unitVars, procVars, opsLeft, segments, diskVars, groupVars, sem, cl >>

\* An open without O_EXCL, which truncates the file it finds.
FlushOpenSegmentTruncating ==
    /\ procUp
    /\ writerPc = "open_seg"
    /\ segFiles' = [segFiles EXCEPT ![segPath] = EmptyFile]
    /\ writerPc' = "write"
    /\ UNCHANGED << ctxDone, groupErr, hist >>
    /\ UNCHANGED << unitVars, procVars, opsLeft, dbVars, walFile, mergerPc, sem, cl >>

\* openWriteonlySegment(segPath): O_CREATE|O_EXCL fails when the file exists.
FlushOpenSegment ==
    /\ procUp
    /\ writerPc = "open_seg"
    /\ IF segFiles[segPath].exists
       THEN FlushFail /\ UNCHANGED segFiles
       ELSE /\ segFiles' = [segFiles EXCEPT ![segPath] = EmptyFile]
            /\ writerPc' = "write"
            /\ UNCHANGED << ctxDone, groupErr, hist >>
    /\ UNCHANGED << unitVars, procVars, opsLeft, dbVars, walFile, mergerPc, sem, cl >>

\* A write whose loop stops one key short.
RECURSIVE WriteRecordsButLast(_, _)
WriteRecordsButLast(m, keys) ==
    IF Len(keys) <= 1 THEN <<>>
    ELSE encode(Head(keys), MemtableGet(m, Head(keys)))
             \o WriteRecordsButLast(m, Tail(keys))

\* sstableWriter.write: the records of the memtable's keys in ascending order.
RECURSIVE WriteRecords(_, _)
WriteRecords(m, keys) ==
    IF keys = <<>> THEN <<>>
    ELSE encode(Head(keys), MemtableGet(m, Head(keys))) \o WriteRecords(m, Tail(keys))

write(m) == WriteRecords(m, MemtableKeys(m))

\* A flush that truncates the WAL as soon as the segment file is written,
\* before the file is closed and the segment published.
FlushWriteThenTruncate ==
    /\ procUp
    /\ writerPc = "write"
    /\ \E ioOk \in BOOLEAN :
         IF ioOk
         THEN /\ segFiles' = [segFiles EXCEPT ![segPath].data = write(flushingMemtable[1])]
              /\ walFile' = [walFile EXCEPT !.data = <<>>, !.synced = 0]
              /\ writerPc' = "close_seg"
              /\ UNCHANGED << ctxDone, groupErr, hist >>
         ELSE FlushFail /\ UNCHANGED << segFiles, walFile >>
    /\ UNCHANGED << unitVars, procVars, opsLeft, dbVars, mergerPc, sem, cl >>

\* flush writes the flushing memtable to the segment file; a write may fail.
FlushWrite ==
    /\ procUp
    /\ writerPc = "write"
    /\ \E ioOk \in BOOLEAN :
         IF ioOk
         THEN /\ segFiles' = [segFiles EXCEPT ![segPath].data = write(flushingMemtable[1])]
              /\ writerPc' = "close_seg"
              /\ UNCHANGED << ctxDone, groupErr, hist >>
         ELSE FlushFail /\ UNCHANGED segFiles
    /\ UNCHANGED << unitVars, procVars, opsLeft, dbVars, walFile, mergerPc, sem, cl >>

\* seg.Close(): the segment's file is closed; flush has not called
\* seg.Flush(), so nothing of the file was synced.  The close may fail.
FlushCloseSegment ==
    /\ procUp
    /\ writerPc = "close_seg"
    /\ \E ioOk \in BOOLEAN :
         IF ioOk
         THEN writerPc' = "publish" /\ UNCHANGED << ctxDone, groupErr, hist >>
         ELSE FlushFail
    /\ UNCHANGED << unitVars, procVars, opsLeft, dbVars, diskVars, mergerPc, sem, cl >>

\* The segment object flush publishes: no index was built, no decode
\* function was set, and its file has been closed.
FlushedSegment == [path |-> segPath, index |-> <<>>, closed |-> TRUE,
                   hasDecode |-> FALSE]

\* The rest of flush, one step at a time: publish the segment at the head of
\* a copy of the list (Load() of the never-stored atomic.Value panics in the
\* type assertion), truncate the WAL, clear the flushing memtable; then Run
\* releases the semaphore and selects again.
FlushFinish ==
    /\ procUp
    /\ writerPc \in {"publish", "truncate", "clear"}
    /\ CASE writerPc = "publish" ->
              IF ~segments.set
              THEN /\ Panic(0)
                   /\ hist' = [hist EXCEPT !.flush = "panicked", !.panicked = TRUE]
              ELSE /\ segments' = [segments EXCEPT !.list = << FlushedSegment >> \o @]
                   /\ writerPc' = "truncate"
                   /\ UNCHANGED << unitVars, procVars, opsLeft, memtable, flushingMemtable,
                                   diskVars, groupVars, sem, cl, hist >>
         [] writerPc = "truncate" ->
              /\ walFile' = [walFile EXCEPT !.data = <<>>, !.synced = 0]
              /\ writerPc' = "clear"
              /\ UNCHANGED << unitVars, procVars, opsLeft, dbVars, segFiles, groupVars, sem,
                              cl, hist >>
         [] OTHER ->
              /\ flushingMemtable' = <<>>
              /\ writerPc' = "select"
              /\ sem' = 0
              /\ hist' = [hist EXCEPT !.flush = "done"]
              /\ UNCHANGED << unitVars, procVars, opsLeft, memtable, segments, diskVars,
                              groupVars, cl >>

\* ------------------------------------------------------ the merger actor

\* segmentMerger.Run: nothing ever sends on its channel; it returns
\* ctx.Err() once the context is cancelled.
MergerCancel ==
    /\ procUp
    /\ mergerPc = "select"
    /\ ctxDone
    /\ mergerPc' = "exited"
    /\ groupErr' = IF groupErr = "nil" THEN "canceled" ELSE groupErr
    /\ UNCHANGED << unitVars, procVars, opsLeft, dbVars, diskVars, ctxDone, sem, writerPc,
                    cl, hist >>

\* ---------------------------------------------------------- the close-fn

\* The closure Open returns is called: it first calls sstWriter.Notify().
Close(c) ==
    /\ procUp
    /\ cl[c].pc = "idle"
    /\ opsLeft > 0
    /\ opsLeft' = opsLeft - 1
    /\ cl' = [cl EXCEPT ![c] = [IdleCaller EXCEPT
                 !.pc = "close_notify", !.op = "Close",
                 !.afterClose = hist.closeCalls > 0,
                 !.afterClosed = hist.closeReturned > 0]]
    /\ hist' = [hist EXCEPT !.closeCalls = @ + 1]
    /\ UNCHANGED << unitVars, procVars, dbVars, diskVars, groupVars, sem, writerPc >>

\* quit(): the context is cancelled.
CloseQuit(c) ==
    /\ procUp
    /\ cl[c].pc = "close_quit"
    /\ ctxDone' = TRUE
    /\ cl' = [cl EXCEPT ![c].pc = "close_wait"]
    /\ hist' = [hist EXCEPT !.quitCalled = TRUE,
                            !.cancelDuringFlush = @ \/ writerPc \in FlushPcs]
    /\ UNCHANGED << unitVars, procVars, opsLeft, dbVars, diskVars, groupErr, mergerPc, sem,
                    writerPc >>

\* g.Wait() returns when both actors have returned; context.Canceled is
\* reported as nil.
CloseWait(c) ==
    /\ procUp
    /\ cl[c].pc = "close_wait"
    /\ writerPc = "exited"
    /\ mergerPc = "exited"
    /\ cl' = [cl EXCEPT ![c].pc = "idle",
                        ![c].err = IF groupErr = "canceled" THEN "nil" ELSE groupErr]
    /\ hist' = [hist EXCEPT !.closeReturned = @ + 1]
    /\ UNCHANGED << unitVars, procVars, opsLeft, dbVars, diskVars, groupVars, sem, writerPc >>

\* ------------------------------------------------------------------- Next

\* The steps of the facade calls of the callers in C.
Calls(C) ==
    \/ \E c \in C, k \in Keys, v \in Values : Set(c, k, v)
    \/ \E c \in C : WalWrite(c)
    \/ \E c \in C : SetSizeCheck(c)
    \/ \E c \in C, k \in Keys : Get(c, k)
    \/ \E c \in C : GetSegments(c)
    \/ \E c \in C : Close(c)
    \/ \E c \in C : CloseQuit(c)
    \/ \E c \in C : CloseWait(c)

\* The steps of the two actors, C being the callers that may notify.
Actors(C) ==
    \/ WriterSelect(C)
    \/ FlushSwap
    \/ FlushOpenSegment
    \/ FlushWrite
    \/ FlushCloseSegment
    \/ FlushFinish
    \/ MergerCancel

\* One caller; the process may be killed and the directory opened again.
Next == Calls({1}) \/ Actors({1}) \/ Kill \/ Open

Spec == Init /\ [][Next]_vars

\* Two concurrent callers in one process.
InitConcurrent ==
    /\ procUp = TRUE
    /\ session = 1
    /\ opsLeft = MaxConcurrentOps
    /\ memtable = EmptyMemtable
    /\ flushingMemtable = <<>>
    /\ segments = [set |-> FALSE, list |-> <<>>]
    /\ walFile = EmptyFile
    /\ segFiles = [n \in SegNames |-> NoFile]
    /\ ctxDone = FALSE
    /\ groupErr = "nil"
    /\ sem = 0
    /\ writerPc = "select"
    /\ mergerPc = "select"
    /\ cl = [c \in Clients |-> IdleCaller]
    /\ hist = InitHist
    /\ mg = Unused
    /\ cd = Unused
    /\ sw = Unused

NextConcurrent == Calls({1, 2}) \/ Actors({1, 2})

SpecConcurrent == InitConcurrent /\ [][NextConcurrent]_vars

\* Three goroutines that each call Set on one key with one value, every Set
\* taking the memtable over the threshold: several notifications can be
\* posted at the flush actor while it is busy with one flush.
NotifyKey == <<1>>
NotifyValue == Slice(<<5>>)

InitNotify ==
    /\ procUp = TRUE
    /\ session = 1
    /\ opsLeft = MaxNotifiers
    /\ memtable = EmptyMemtable
    /\ flushingMemtable = <<>>
    /\ segments = [set |-> FALSE, list |-> <<>>]
    /\ walFile = EmptyFile
    /\ segFiles = [n \in SegNames |-> NoFile]
    /\ ctxDone = FALSE
    /\ groupErr = "nil"
    /\ sem = 0
    /\ writerPc = "select"
    /\ mergerPc = "select"
    /\ cl = [c \in Clients |-> IdleCaller]
    /\ hist = InitHist
    /\ mg = Unused
    /\ cd = Unused
    /\ sw = Unused

NextNotify ==
    \/ \E c \in Clients : Set(c, NotifyKey, NotifyValue)
    \/ \E c \in Clients : WalWrite(c)
    \/ \E c \in Clients : SetSizeCheck(c)
    \/ Actors(Clients)

SpecNotify == InitNotify /\ [][NextNotify]_vars

\* ----------------------------------------------- functions run on their own

\* No database is open while a function is run on its own.
DbIdle ==
    /\ procUp = FALSE
    /\ session = 1
    /\ opsLeft = 0
    /\ memtable = EmptyMemtable
    /\ flushingMemtable = <<>>
    /\ segments = [set |-> FALSE, list |-> <<>>]
    /\ walFile = NoFile
    /\ segFiles = [n \in SegNames |-> NoFile]
    /\ ctxDone = FALSE
    /\ groupErr = "nil"
    /\ sem = 0
    /\ writerPc = "dead"
    /\ mergerPc = "dead"
    /\ cl = [c \in Clients |-> IdleCaller]
    /\ hist = InitHist

\* The sequences over S of length at most n.
RECURSIVE SeqsUpTo(_, _)
SeqsUpTo(S, n) ==
    IF n = 0 THEN {<<>>}
    ELSE LET shorter == SeqsUpTo(S, n - 1)
         IN  shorter \cup {Append(q, x) : q \in shorter, x \in S}

\* ------------------------------------------------------------ mergeStreams

\* Keys of the records in the merged streams.
MergeKeys == {<<1>>, <<2>>, <<3>>}

\* q is in ascending key order (equal neighbours allowed).
Ascending(q) == \A i \in 1..Len(q) : \A j \in 1..Len(q) : i < j => ~KeyLess(q[j], q[i])

\* The token streams of a segment holding the keys q: the record at
\* position p of stream number i carries a value met nowhere else.
StreamOf(q, i) == [p \in 1..Len(q) |-> [key |-> q[p], value |-> Slice(<<10 * i + p>>)]]

\* The key sequences of n sorted streams that hold at most total records.
RECURSIVE SortedStreams(_, _)
SortedStreams(n, total) ==
    IF n = 0 THEN {<<>>}
    ELSE UNION {{Append(rest, q) : rest \in SortedStreams(n - 1, total - Len(q))} :
                   q \in {x \in SeqsUpTo(MergeKeys, total) : Ascending(x)}}

\* The inputs: up to MaxStreams sorted streams of up to MaxRecords records.
MergeInputs ==
    {[i \in 1..Len(ks) |-> StreamOf(ks[i], i - 1)] :
        ks \in UNION {SortedStreams(n, MaxRecords) : n \in 0..MaxStreams}}

\* The decode and encode the merger is given: a token is a key and a value,
\* and out collects the records written, in order.
plainDecode(tok) == Rec(tok.key, tok.value, 0)
plainEncode(out, rec) == Append(out, [key |-> rec.key, value |-> rec.value])

\* mergeStreams is called: an empty heap for len(streams) items.
StartMerge(streams) ==
    [pc      |-> IF Len(streams) = 0 THEN "loop" ELSE "fill",
     streams |-> streams,
     pos     |-> [i \in 1..Len(streams) |-> 0],   \* tokens scanned, by stream
     pq      |-> newIndexMinHeap(Len(streams)),
     i       |-> 0,
     prev    |-> NilRec,
     min     |-> NilRec,                          \* what Min returned last
     out     |-> <<>>]

\* streams[i].Scan(): the stream has a token left.
Scan(m, i) == m.pos[i + 1] < Len(m.streams[i + 1])

\* The record decoded from the token Scan moved to, numbered by its stream.
Scanned(m, i) ==
    [plainDecode(m.streams[i + 1][m.pos[i + 1] + 1]) EXCEPT !.order = i]

\* The first loop: the first record of stream i goes on the heap, unless the
\* stream is empty.
MergeFill ==
    /\ mg.pc = "fill"
    /\ LET i == mg.i
       IN  mg' = [mg EXCEPT
                    !.pq = IF Scan(mg, i) THEN Insert(@, i, Scanned(mg, i)) ELSE @,
                    !.pos[i + 1] = IF Scan(mg, i) THEN @ + 1 ELSE @,
                    !.i = i + 1,
                    !.pc = IF i + 1 = Len(mg.streams) THEN "loop" ELSE "fill"]
    /\ UNCHANGED << storeVars, cd, sw >>

\* One round of the second loop: the smallest record leaves the heap; the
\* previous record is written when the key changes, else its value is
\* replaced; the heap is refilled from the stream the record came from.
MergeLoop ==
    /\ mg.pc = "loop"
    /\ Size(mg.pq) # 0
    /\ LET m     == Min(mg.pq)
           prev0 == IF mg.prev.nil THEN m.rec ELSE mg.prev
           flush == prev0.key # m.rec.key
           after == [mg EXCEPT !.pq = m.h]
       IN  mg' = [mg EXCEPT
                    !.out  = IF flush THEN plainEncode(@, prev0) ELSE @,
                    !.prev = [(IF flush THEN m.rec ELSE prev0) EXCEPT
                                 !.value = m.rec.value],
                    !.i    = m.i,
                    !.min  = m.rec,
                    !.pq   = IF Scan(after, m.i)
                             THEN Insert(m.h, m.i, Scanned(after, m.i)) ELSE m.h,
                    !.pos[m.i + 1] = IF Scan(after, m.i) THEN @ + 1 ELSE @]
    /\ UNCHANGED << storeVars, cd, sw >>

\* After the loop the last record is written; encode dereferences prev, so
\* a nil prev panics.
MergeLast ==
    /\ mg.pc = "loop"
    /\ Size(mg.pq) = 0
    /\ mg' = IF mg.prev.nil
             THEN [mg EXCEPT !.pc = "panic"]
             ELSE [mg EXCEPT !.pc = "done", !.out = plainEncode(@, mg.prev)]
    /\ UNCHANGED << storeVars, cd, sw >>

InitMerge ==
    /\ DbIdle
    /\ mg \in {StartMerge(ss) : ss \in MergeInputs}
    /\ cd = Unused
    /\ sw = Unused

NextMerge == MergeFill \/ MergeLoop \/ MergeLast

\* mergeStreams run on its own on every input.
SpecMerge == InitMerge /\ [][NextMerge]_vars

\* --------------------------------------------------------- encode / decode

\* The keys and values encode is given: any bytes, 0x00 among them; the
\* value may be the nil slice.
CodecKeys == SeqsUpTo({0, 1, 2}, MaxKeyLen)
CodecValues == {NilSlice} \cup {Slice(b) : b \in SeqsUpTo({0, 5}, MaxValueLen)}

\* encode(&out, &record{key, value}) into an empty buffer.
CodecEncode ==
    /\ cd.pc = "record"
    /\ cd' = [cd EXCEPT !.pc = "encoded", !.bytes = encode(cd.key, cd.value)]
    /\ UNCHANGED << storeVars, mg, sw >>

\* decode of the bytes encode wrote.
CodecDecode ==
    /\ cd.pc = "encoded"
    /\ cd' = [cd EXCEPT !.pc = "decoded", !.rec = decode(cd.bytes)]
    /\ UNCHANGED << storeVars, mg, sw >>

InitCodec ==
    /\ DbIdle
    /\ mg = Unused
    /\ cd \in {[pc |-> "record", key |-> k, value |-> v, bytes |-> <<>>,
                 rec |-> [ok |-> FALSE, key |-> <<>>, value |-> NilSlice]] :
                   k \in CodecKeys, v \in CodecValues}
    /\ sw = Unused

NextCodec == CodecEncode \/ CodecDecode

\* encode and decode run on their own on every record.
SpecCodec == InitCodec /\ [][NextCodec]_vars

\* ------------------------------------------------------ sstableWriter.write

\* Keys set in the memtable; one is a prefix of another.
SSTableKeys == {<<1>>, <<1, 2>>, <<2>>}

\* mem.Set(key, value) of the next record of the log.
SSTableSet(key, value) ==
    /\ sw.pc = "log"
    /\ Len(sw.log) < MaxSets
    /\ sw' = [sw EXCEPT !.log = Append(@, [key |-> key, value |-> value]),
                        !.mem = MemtableSet(@, key, value)]
    /\ UNCHANGED << storeVars, mg, cd >>

\* sw.write(&out, &mem) into an empty buffer.
SSTableWrite ==
    /\ sw.pc = "log"
    /\ sw' = [sw EXCEPT !.pc = "written", !.out = write(sw.mem)]
    /\ UNCHANGED << storeVars, mg, cd >>

\* merge's stream over the segment file written: a scanner with
\* Split(split), read to its end.
SSTableScan ==
    /\ sw.pc = "written"
    /\ sw' = [sw EXCEPT !.pc = "scanned", !.tokens = ScanAll(sw.out)]
    /\ UNCHANGED << storeVars, mg, cd >>

InitSSTable ==
    /\ DbIdle
    /\ mg = Unused
    /\ cd = Unused
    /\ sw = [pc |-> "log", log |-> <<>>, mem |-> EmptyMemtable, out |-> <<>>,
             tokens |-> <<>>]

NextSSTable ==
    \/ \E k \in SSTableKeys, v \in Values : SSTableSet(k, v)
    \/ SSTableWrite
    \/ SSTableScan

\* sstableWriter.write run on its own on the memtable of every log, and the
\* merger's scanner run on what it wrote.
SpecSSTable == InitSSTable /\ [][NextSSTable]_vars

\* ------------------------------------------- Get's lookup in a segment list

\* The bytes after the length prefix of the record in the segment file:
\* any bytes, so with a delimiter byte or without one.
ReadBodies == SeqsUpTo({0, 1, 5}, MaxBodyLen)

\* A segment whose index has the key of its one record at offset 0, open for
\* reading, with the decode function set or left nil.
ReadSegment(key, hasDecode) ==
    [path |-> segPath, index |-> [k \in {key} |-> 0], closed |-> FALSE,
     hasDecode |-> hasDecode]

\* The loop of Get over the segment list (DB.Get after the memtables gave
\* nothing), with ReadRecord on the segment that has the key.
ReadLookup ==
    /\ cd.pc = "lookup"
    /\ cd' = [cd EXCEPT !.pc = "returned", !.res = SearchSegments(cd.ss, cd.key)]
    /\ UNCHANGED << storeVars, mg, sw >>

InitRead ==
    /\ procUp = FALSE
    /\ session = 1
    /\ opsLeft = 0
    /\ memtable = EmptyMemtable
    /\ flushingMemtable = <<>>
    /\ segments = [set |-> FALSE, list |-> <<>>]
    /\ walFile = NoFile
    /\ \E body \in ReadBodies :
         segFiles = [n \in SegNames |->
                       [exists |-> TRUE,
                        data   |-> LittleEndian32(recordLengthSize + Len(body)) \o body,
                        synced |-> 0]]
    /\ ctxDone = FALSE
    /\ groupErr = "nil"
    /\ sem = 0
    /\ writerPc = "dead"
    /\ mergerPc = "dead"
    /\ cl = [c \in Clients |-> IdleCaller]
    /\ hist = InitHist
    /\ mg = Unused
    /\ cd \in {[pc |-> "lookup", key |-> k, ss |-> << ReadSegment(ik, d) >>,
                 res |-> [err |-> "nil", value |-> NilSlice]] :
                   k \in Keys, ik \in Keys, d \in BOOLEAN}
    /\ sw = Unused

NextRead == ReadLookup

\* Get's segment lookup run on its own on every one-record segment.
SpecRead == InitRead /\ [][NextRead]_vars

\* ============================================================ properties

\* Caller c's call has ended: it returned, or it panicked.
Finished(c) == cl[c].op # "none" /\ cl[c].pc \in {"idle", "panicked"}

\* Caller c's Get returned the bytes of v and no error.
Returned(c, v) ==
    /\ cl[c].pc = "idle"
    /\ cl[c].err = "nil"
    /\ cl[c].res.b = v.b

\* C1 (as claimed): read-your-writes.  When all Sets on a key in this session
\* were issued by one caller and all returned success, that caller's later
\* Get of the key returns the value of its most recent Set.
C1_ReadYourWrites ==
    \A c \in Clients :
        (cl[c].op = "Get" /\ Finished(c) /\ cl[c].ryw.known)
            => Returned(c, cl[c].ryw.val)

\* C2 (as claimed): a Get of a key that its probes found in neither memtable
\* and in no segment returns ErrKeyNotFound and no value.
C2_MissingKeyNotFound ==
    \A c \in Clients :
        (/\ cl[c].op = "Get"
         /\ Finished(c)
         /\ ~cl[c].seen.inAct /\ ~cl[c].seen.inFl /\ ~cl[c].seen.inSeg)
            => (cl[c].pc = "idle" /\ cl[c].err = "ErrKeyNotFound" /\ cl[c].res.nil)

\* C3 (as claimed): durability across a crash.  When the previous process
\* acknowledged its Sets on a key (the last one with a non-empty value) and
\* ended before any flush, a Get of the key after Open, before any new Set on
\* it, returns the acknowledged value.
C3_DurableAcrossCrash ==
    \A c \in Clients :
        (/\ session > 1
         /\ hist.flushes = 0
         /\ cl[c].op = "Get"
         /\ Finished(c)
         /\ ~hist.prev[cl[c].key].val.nil
         /\ hist.prev[cl[c].key].known
         /\ hist.keys[cl[c].key].callers = {})
            => Returned(c, hist.prev[cl[c].key].val)

\* The bytes rec occur in data as one contiguous run.
Contains(data, rec) ==
    \E i \in 0..(Len(data) - Len(rec)) : SubSeq(data, i + 1, i + Len(rec)) = rec

\* The record of Set(key, val) is in the WAL file.
InWal(r) == Contains(walFile.data, encode(r.key, r.val))

\* The record of Set(key, val) is in the file of a segment of the list.
InSegmentList(r) ==
    /\ segments.set
    /\ \E i \in 1..Len(segments.list) :
         Contains(segFiles[segments.list[i].path].data, encode(r.key, r.val))

\* C4 (as claimed): while the process runs, the record of every Set that
\* returned success is in the WAL or in a segment of the segment list.
C4_AckedRecordsDurable ==
    procUp => \A r \in hist.acked : InWal(r) \/ InSegmentList(r)

\* C5 (as claimed): durability across a flush.  When the previous process
\* acknowledged its Sets on a key (the last one with a non-empty value) and
\* was shut down through close-fn, whose flush wrote and closed the segment
\* file holding the key's record, then Open finds an empty WAL and installs
\* the segment list, and a Get of the key, before any new Set on it, returns
\* the value.
C5_DurableAcrossFlush ==
    \A k \in Keys :
        (/\ session > 1
         /\ procUp
         /\ hist.prevShutdown
         /\ hist.prev[k].known
         /\ ~hist.prev[k].val.nil
         /\ Contains(segFiles[segPath].data, encode(k, hist.prev[k].val)))
            => /\ hist.walLenAtOpen = 0
               /\ segments.set
               /\ \A c \in Clients :
                    (/\ cl[c].op = "Get" /\ cl[c].key = k /\ Finished(c)
                     /\ hist.keys[k].callers = {})
                        => Returned(c, hist.prev[k].val)

\* C6 (as claimed): a Get whose probe ran while the key was in the flushing
\* memtable and not in the active one returns the flushing memtable's value.
C6_VisibleDuringFlush ==
    \A c \in Clients :
        (/\ cl[c].op = "Get"
         /\ Finished(c)
         /\ cl[c].seen.inFl /\ ~cl[c].seen.inAct)
            => Returned(c, cl[c].seen.flVal)

\* C7 (as claimed): a Get whose probe ran while the key was in both the
\* active and the flushing memtable returns the active memtable's value.
C7_FreshestWins ==
    \A c \in Clients :
        (/\ cl[c].op = "Get"
         /\ Finished(c)
         /\ cl[c].seen.inAct /\ cl[c].seen.inFl)
            => Returned(c, cl[c].seen.actVal)

\* C8: close-fn's notification is received before the cancellation is
\* signalled; the writer never returns leaving a flush it started unfinished
\* (a flush ends by finishing, by failing or in a panic, never by the
\* cancellation); and close-fn has returned only when both actors have.
C8_CloseFinalFlush ==
    procUp =>
        /\ hist.quitCalled => hist.finalRecv
        /\ writerPc = "exited" => hist.flush # "running"
        /\ \A c \in Clients :
             (cl[c].op = "Close" /\ cl[c].pc = "idle")
                => (writerPc = "exited" /\ mergerPc = "exited")

\* C8's case: close-fn's notification started a flush, quit() was called
\* while that flush ran, the flush went on to its own end, and close-fn
\* returned after both actors.
C8_Witness ==
    \E c \in Clients :
        /\ procUp
        /\ cl[c].op = "Close" /\ cl[c].pc = "idle"
        /\ hist.finalRecv
        /\ hist.cancelDuringFlush
        /\ hist.flush = "failed"
        /\ writerPc = "exited" /\ mergerPc = "exited"

\* C9 (as claimed): a close-fn call made after an earlier one returned also
\* returns: it is never left sending its notification to a writer that has
\* returned, a send no receive will ever meet.
C9_CloseIdempotent ==
    \A c \in Clients :
        (cl[c].op = "Close" /\ cl[c].afterClosed)
            => ~(cl[c].pc = "close_notify" /\ writerPc = "exited")

\* C10 (as claimed): a Set or Get issued after close-fn was called returns
\* an error.
C10_ClosedRefuses ==
    \A c \in Clients :
        (cl[c].op \in {"Set", "Get"} /\ cl[c].afterClose /\ Finished(c))
            => (cl[c].pc = "idle" /\ cl[c].err # "nil")

\* C11 (as claimed): writers never wait on the flush actor.  A Set that has
\* reached Notify is never held there by a flush in progress (or by a writer
\* that has returned): its notification is taken at once or dropped.
C11_WritersNeverWait ==
    \A c \in Clients :
        (procUp /\ cl[c].op = "Set" /\ cl[c].pc = "notify")
            => writerPc = "select"

\* The keys held by the streams, and the value a key has in the newest
\* (highest-numbered) stream holding it, at its last occurrence there.
InputKeys(streams) ==
    UNION {{streams[i][p].key : p \in 1..Len(streams[i])} : i \in 1..Len(streams)}
HoldsKey(streams, i, k) == \E p \in 1..Len(streams[i]) : streams[i][p].key = k
NewestValue(streams, k) ==
    LET i == CHOOSE x \in 1..Len(streams) :
                 /\ HoldsKey(streams, x, k)
                 /\ \A y \in 1..Len(streams) : HoldsKey(streams, y, k) => y <= x
        p == CHOOSE x \in 1..Len(streams[i]) :
                 /\ streams[i][x].key = k
                 /\ \A y \in 1..Len(streams[i]) : streams[i][y].key = k => y <= x
    IN  streams[i][p].value

NoZero(q) == \A i \in 1..Len(q) : q[i] # 0

\* C13: what encode wrote starts with the little-endian total length
\* 4 + |key| + 1 + |value| and is that long; and for a key without 0x00,
\* decode of it yields the key and the bytes of the value.
C13_CodecRoundTrip ==
    /\ cd.pc \in {"encoded", "decoded"} =>
          /\ Len(cd.bytes) = 4 + Len(cd.key) + 1 + Len(cd.value.b)
          /\ Uint32(SubSeq(cd.bytes, 1, 4)) = 4 + Len(cd.key) + 1 + Len(cd.value.b)
          /\ \A i \in 1..4 : cd.bytes[i] \in 0..255
    /\ (cd.pc = "decoded" /\ NoZero(cd.key)) =>
          /\ cd.rec.ok
          /\ cd.rec.key = cd.key
          /\ cd.rec.value.b = cd.value.b

\* C13's case: a record whose key holds no 0x00 and whose value does has
\* been encoded and decoded.
C13_Witness ==
    /\ cd.pc = "decoded"
    /\ cd.key = <<1, 2>>
    /\ cd.value.b = <<5, 0>>

\* C14 (as claimed): empty values are storable.  After the caller's Sets
\* on a key all returned success, the last with an empty value, its Get of
\* the key returns an empty value and no error: it neither reports the key
\* missing nor goes on to an older value in the flushing memtable or in a
\* segment.
C14_EmptyValueStorable ==
    \A c \in Clients :
        (/\ cl[c].op = "Get"
         /\ Finished(c)
         /\ cl[c].ryw.known
         /\ Len(cl[c].ryw.val.b) = 0)
            => /\ cl[c].pc = "idle"
               /\ cl[c].err = "nil"
               /\ Len(cl[c].res.b) = 0
               /\ ~cl[c].seen.inSeg

\* The records held by data, read one after the other by their length
\* prefixes; a prefix that does not fit ends the reading with a broken record.
RECURSIVE Records(_)
Records(data) ==
    IF data = <<>> THEN <<>>
    ELSE IF Len(data) < recordLengthSize
            \/ Uint32(SubSeq(data, 1, recordLengthSize)) <= recordLengthSize
            \/ Uint32(SubSeq(data, 1, recordLengthSize)) > Len(data)
    THEN << [ok |-> FALSE, key |-> <<>>, value |-> NilSlice] >>
    ELSE LET blen == Uint32(SubSeq(data, 1, recordLengthSize))
         IN  << decode(SubSeq(data, 1, blen)) >>
                 \o Records(SubSeq(data, blen + 1, Len(data)))

\* The value of the last Set on key k in the log.
LastSet(log, k) ==
    LET i == CHOOSE x \in 1..Len(log) :
                 /\ log[x].key = k
                 /\ \A y \in 1..Len(log) : log[y].key = k => y <= x
    IN  log[i].value

\* C15: what write emitted for the memtable of a log of Sets is one record
\* per distinct key of the log, in strictly ascending key order, each with
\* the value of the last Set on its key.
C15_MemtableToSSTable ==
    sw.pc = "written" =>
        LET recs == Records(sw.out)
        IN  /\ \A i \in 1..Len(recs) : recs[i].ok
            /\ \A i \in 1..Len(recs) : \A j \in 1..Len(recs) :
                  i < j => KeyLess(recs[i].key, recs[j].key)
            /\ {recs[i].key : i \in 1..Len(recs)}
                  = {sw.log[i].key : i \in 1..Len(sw.log)}
            /\ \A i \in 1..Len(recs) :
                  recs[i].value.b = LastSet(sw.log, recs[i].key).b

\* C15's case: write has run on a memtable where a key was set twice and
\* the keys were set out of order.
C15_Witness ==
    /\ sw.pc = "written"
    /\ Len(sw.log) = 3
    /\ sw.log[1].key = <<2>>
    /\ sw.log[2].key = <<1>>
    /\ sw.log[3].key = <<2>>
    /\ sw.log[1].value # sw.log[3].value

\* C16 (as claimed): at most one flush is in flight.  No freeze has replaced
\* a memtable that was still frozen; and whenever the writer is not inside a
\* flush (it waits in its select, or it has returned, after a failed flush
\* too), the flushing-memtable pointer is nil.  (The active memtable is a
\* memtable in every state of the model: the pointer is never nil.)
C16_AtMostOneFlush ==
    procUp =>
        /\ ~hist.refroze
        /\ DOMAIN memtable = {"kv", "size"}
        /\ writerPc \notin FlushPcs => flushingMemtable = <<>>

\* C17 (as claimed): durability on publication.  Once a flush has closed its
\* segment file, and so when it publishes the segment and truncates the WAL,
\* every byte it wrote to the file has been fsynced.
C17_SegmentSyncedFirst ==
    (procUp /\ writerPc \in {"publish", "truncate", "clear"})
        => segFiles[segPath].synced = Len(segFiles[segPath].data)

\* C18: WAL truncation ordering.  The WAL loses bytes only in the truncation
\* step of a flush, which starts after the segment file holds the whole frozen
\* memtable, is closed, and the segment stands at the head of the stored
\* segment list; a running database clears a non-nil flushing-memtable
\* pointer only in the step that follows the truncation; and the step in
\* which a flush fails leaves the WAL as it was.
C18_TruncationOrdering ==
    [][ /\ Len(walFile'.data) < Len(walFile.data) =>
              /\ procUp /\ writerPc = "truncate" /\ writerPc' = "clear"
              /\ segments.set /\ segments.list # <<>>
              /\ Head(segments.list) = FlushedSegment
              /\ segFiles[segPath].data = write(flushingMemtable[1])
        /\ (procUp /\ procUp' /\ flushingMemtable # <<>> /\ flushingMemtable' = <<>>) =>
              writerPc = "clear"
        /\ (hist.flush # "failed" /\ hist'.flush = "failed") =>
              walFile' = walFile
      ]_vars

\* C18's case: a flush of a memtable whose records are in the WAL has failed
\* before publication, and the WAL still holds them.
C18_Witness ==
    /\ procUp /\ hist.flush = "failed" /\ writerPc = "exited"
    /\ flushingMemtable # <<>> /\ flushingMemtable[1].size > 0
    /\ walFile.data # <<>>

\* C19 (as claimed): the segment a flush is about to publish has every key of
\* the frozen memtable in its index, and ReadRecord at the indexed offset
\* returns the key's flushed value without an error.
C19_PublishedSegmentQueryable ==
    (procUp /\ writerPc = "publish") =>
        \A k \in DOMAIN flushingMemtable[1].kv :
            /\ k \in DOMAIN FlushedSegment.index
            /\ ReadRecord(FlushedSegment, FlushedSegment.index[k])
                   = [err |-> "nil", value |-> flushingMemtable[1].kv[k]]

\* C20 (as claimed): no flush reaches the exclusive create of its segment
\* file with the name already taken by the file of an earlier flush.
C20_FreshSegmentNames ==
    ~(procUp /\ writerPc = "open_seg" /\ segFiles[segPath].exists)

RECURSIVE EncodeAll(_)
EncodeAll(log) ==
    IF log = <<>> THEN <<>>
    ELSE encode(Head(log).key, Head(log).val) \o EncodeAll(Tail(log))

\* C22 (as claimed): WAL order equals acceptance order.  When no Set of the
\* session has failed and none is in the middle of its WAL append, what the
\* session has appended to the WAL is the whole records of its Sets in the
\* order the memtable took them, nothing interleaved.
C22_WalInAcceptanceOrder ==
    ( /\ procUp
      /\ \A k \in Keys : ~hist.keys[k].failed
      /\ \A c \in Clients : cl[c].pc \notin {WalPcs[i] : i \in 1..4} )
        => SubSeq(walFile.data, hist.walLenAtOpen + 1, Len(walFile.data))
               = EncodeAll(hist.applied)

\* The accesses of the two memtable pointers that the step taken from a
\* position makes, each with the mode in which the step holds memMu while it
\* makes the access ("W", "R" or "none").
Access(ptr, isWrite, lock) == [ptr |-> ptr, write |-> isWrite, lock |-> lock]

\* A caller: Set's insert under Lock, Get's probe under RLock (an idle
\* caller may start either), and Set's size check after the WAL append,
\* which calls db.memtable.Size() with no lock.
CallerAccesses(c) ==
    CASE cl[c].pc = "idle" /\ opsLeft > 0 ->
             { Access("memtable", FALSE, "W"), Access("memtable", FALSE, "R"),
               Access("flushingMemtable", FALSE, "R") }
      [] cl[c].pc = "wal_sync" -> { Access("memtable", FALSE, "none") }
      [] OTHER -> {}

\* The flush actor: the swap and the clearing under Lock, and the read of
\* db.flushingMemtable that is the argument of w.write, with no lock.
WriterAccesses ==
    CASE writerPc = "swap" ->
             { Access("memtable", FALSE, "W"), Access("memtable", TRUE, "W"),
               Access("flushingMemtable", TRUE, "W") }
      [] writerPc = "write" -> { Access("flushingMemtable", FALSE, "none") }
      [] writerPc = "clear" -> { Access("flushingMemtable", TRUE, "W") }
      [] OTHER -> {}

\* C23 (as claimed): lock discipline.  Every access of a memtable pointer
\* that a caller or the flush actor is about to make is made under memMu, a
\* write under the write lock; so no caller's access is unordered with a
\* write of the same pointer by the flush actor.
C23_LockDiscipline ==
    procUp =>
        /\ \A a \in WriterAccesses \cup UNION {CallerAccesses(c) : c \in Clients} :
               IF a.write THEN a.lock = "W" ELSE a.lock \in {"R", "W"}
        /\ \A c \in Clients : \A a \in CallerAccesses(c) : \A b \in WriterAccesses :
               (a.ptr = b.ptr /\ (a.write \/ b.write)) =>
                   (a.lock # "none" /\ b.lock # "none")

\* C24 (as claimed): copy-on-write publication.  The step in which a flush
\* publishes its segment leaves the database with a stored segment list
\* whose head is the new segment and whose tail is the list as it was.
C24_CopyOnWritePublication ==
    [][ ( /\ procUp /\ writerPc = "publish"
          /\ \/ writerPc' = "truncate"
             \/ hist.flush # "panicked" /\ hist'.flush = "panicked" )
        => /\ procUp'
           /\ segments'.set
           /\ segments'.list = << FlushedSegment >> \o segments.list
      ]_vars

\* C25: segment immutability.  From the moment the flush that wrote it has
\* closed it (and so for as long as the segment is in the list), no step of
\* Set, Get, a later flush, the merger, close-fn, a crash or a reopening
\* changes a segment file: its bytes stay and it is not created anew.
C25_SegmentImmutable ==
    [][ (segFiles[segPath].exists /\ writerPc # "write")
            => segFiles'[segPath] = segFiles[segPath] ]_vars

\* C25's case: a flush of a later session has met the segment file an
\* earlier flush wrote, and the file still holds that flush's records.
C25_Witness ==
    /\ procUp /\ session > 1 /\ hist.flush = "failed"
    /\ segFiles[segPath].exists /\ segFiles[segPath].data # <<>>

\* C26 (as claimed): no facade call blocks forever.  Once the flush actor has
\* exited, no Set and no close-fn stands in Notify's send, which from then on
\* has no receiver and never completes.
C26_NoCallBlocksForever ==
    \A c \in Clients :
        ~(procUp /\ writerPc = "exited" /\ cl[c].pc \in {"notify", "close_notify"})

\* C27 (as claimed): Set is all-or-nothing on failure.  A value that Get
\* returns is the value of a Set on the key that returned nil, or of a Set
\* on the key that is still running; never the value of a Set that only
\* failed.
C27_FailedSetInvisible ==
    \A c \in Clients :
        (procUp /\ cl[c].op = "Get" /\ Finished(c) /\ cl[c].err = "nil"
                /\ ~cl[c].res.nil)
            => \/ [key |-> cl[c].key, val |-> cl[c].res] \in hist.acked
               \/ \E d \in Clients :
                     /\ cl[d].op = "Set" /\ cl[d].pc # "idle"
                     /\ cl[d].key = cl[c].key /\ cl[d].val = cl[c].res

\* C28: a frozen memtable is never modified.  While a running database holds
\* a frozen memtable and no new freeze replaces it, no step changes it; and
\* once the flush has written its segment file, the file holds exactly the
\* records of the frozen memtable's keys and values.
C28_FrozenMemtableUnmodified ==
    [][ /\ (procUp' /\ flushingMemtable # <<>> /\ hist'.flushes = hist.flushes)
              => flushingMemtable' = flushingMemtable
        /\ (procUp' /\ writerPc' \in {"close_seg", "publish"})
              => segFiles'[segPath].data = write(flushingMemtable'[1])
      ]_vars

\* C28's case: a Set has inserted into the new active memtable after the
\* swap, and the flush has written the frozen memtable's records.
C28_Witness ==
    /\ procUp /\ writerPc \in {"close_seg", "publish"}
    /\ flushingMemtable # <<>> /\ flushingMemtable[1].size > 0
    /\ memtable.size > 0
    /\ segFiles[segPath].data # <<>>

\* C29 (as claimed): a failed flush loses nothing.  After a flush has failed
\* at the creation, the writing or the closing of its segment, the segment
\* list is as it was, the WAL holds every acknowledged record of the session,
\* and for every key of the frozen memtable Get's probe of the memtables
\* finds a value to return (the key's newer value in the active memtable, or
\* else its frozen one).
C29_FailedFlushLosesNothing ==
    (procUp /\ hist.flush = "failed") =>
        /\ segments = [set |-> FALSE, list |-> <<>>]
        /\ Len(walFile.data) >= hist.walLenAtOpen
        /\ flushingMemtable # <<>>
        /\ \A k \in DOMAIN flushingMemtable[1].kv :
               /\ ~ProbeMemtables(k).nil
               /\ ProbeMemtables(k) = IF k \in DOMAIN memtable.kv /\ ~memtable.kv[k].nil
                                      THEN memtable.kv[k]
                                      ELSE flushingMemtable[1].kv[k]

\* The heap's order: by key, ties by stream number.
RecLess(a, b) == KeyLess(a.key, b.key) \/ (a.key = b.key /\ a.order < b.order)

\* The streams that have a record on heap h.
OnHeap(h) == {s \in DOMAIN h.qp : h.qp[s] # -1}

\* Heap h holds one record for each of n distinct streams, each record
\* numbered by the stream it is associated with.
OnePerStream(h) ==
    /\ Cardinality({h.pq[a] : a \in 1..h.n}) = h.n
    /\ {h.pq[a] : a \in 1..h.n} = OnHeap(h)
    /\ \A s \in OnHeap(h) : ~h.items[s].nil /\ h.items[s].order = s

C31_MergeEmptyInput ==
    (mg.pc \in {"done", "panic"} /\ InputKeys(mg.streams) = {})
        => (mg.pc = "done" /\ mg.out = <<>>)

\* C32 (as claimed): merger input streams follow the record framing.  The
\* scanner merge() builds over a segment file yields one token per record
\* written, in file order, and decode of each token returns that record's
\* key and value.
C32_StreamsFollowFraming ==
    sw.pc = "scanned" =>
        LET keys == MemtableKeys(sw.mem)
        IN  /\ Len(sw.tokens) = Len(keys)
            /\ \A i \in 1..Len(keys) :
                  /\ ~decode(sw.tokens[i]).panic
                  /\ decode(sw.tokens[i]).ok
                  /\ decode(sw.tokens[i]).key = keys[i]
                  /\ decode(sw.tokens[i]).value.b = MemtableGet(sw.mem, keys[i]).b

====
